---------------------------- MODULE Spec2Model ----------------------------
(***************************************************************************)
(* Model of lib/BioPythonGraphics.py: the colour assignment (colormap),    *)
(* the region extent (regionlength), the region drawing                    *)
(* (make_region_drawing) and the two feature assemblers                    *)
(* (makeSeqFeaturesForGeneNeighbors, makeSeqObjectsForTblastnNeighbors).   *)
(*                                                                         *)
(* Each function is one specification: its Init draws the arguments and    *)
(* the collaborators' data from bounded sets, its actions are the          *)
(* function's steps.  Python numbers are modelled exactly (rationals with  *)
(* an int/float tag); floating point rounding is not modelled.             *)
(***************************************************************************)
EXTENDS Integers, Sequences, FiniteSets, TLC

VARIABLES
    pc,             \* position of the running call
    error,          \* name of the exception that ended the call, or NoError
    pyver,          \* major version of the interpreter running the file (2 or 3)
    \* ---- colormap
    valuelist,      \* argument of colormap
    colorlookup,    \* dict returned by colormap
    \* ---- regionlength / make_region_drawing
    seqfeatures,    \* argument: list of features
    getcolor,       \* argument: dict cluster id -> colour
    centergenename, \* argument: id of the centre feature
    maxwidth,       \* argument: width in pixels
    center,         \* locals centerdstart, centerend, centerdstrand (or unbound)
    arrows,         \* gd_feature_set: what add_feature has received
    region,         \* locals start, end (result of regionlength)
    offsets,        \* locals pagew_px, loffset, roffset
    drawcall,       \* arguments gd_diagram.draw was called with
    image,          \* the file imgfileloc: "absent", "written" or "rotated"
    convert,        \* the os.system("convert -rotate 180 ...") call
    returned,       \* value returned by make_region_drawing
    \* ---- feature assemblers
    geneinfo,       \* database: gene id -> record
    neighborhood,   \* database: gene id -> neighbour records of the run
    genename,       \* argument of makeSeqFeaturesForGeneNeighbors
    tblastn_id,     \* argument of makeSeqObjectsForTblastnNeighbors
    N,              \* argument N (window size)
    calls,          \* collaborator calls made so far, in order
    warnings,       \* number of warnings written to stderr
    features        \* list returned by the assembler

ctlVars   == <<pc, error, pyver>>
colorVars == <<valuelist, colorlookup>>
drawArgs  == <<seqfeatures, getcolor, centergenename, maxwidth>>
drawVars  == <<center, arrows, region, offsets, drawcall, image, convert, returned>>
asmArgs   == <<geneinfo, neighborhood, genename, tblastn_id, N>>
asmVars   == <<calls, warnings, features>>
vars == <<ctlVars, colorVars, drawArgs, drawVars, asmArgs, asmVars>>

NoError == "none"
None    == "None"

-----------------------------------------------------------------------------
(* Bounds of the model *)

MaxClusterId == 3      \* cluster ids given to colormap are -1 .. MaxClusterId
MaxValues    == 5      \* longest valuelist of arbitrary content
MaxDistinct  == 50     \* the lists k-2, k-3, .., -1 are given for k up to MaxDistinct
MaxFeatures  == 3      \* longest feature list given to regionlength
MaxDrawn     == 2      \* longest feature list given to make_region_drawing
MaxCoord     == 4      \* contig coordinates of the assembler are 0 .. MaxCoord
MaxWindow    == 2      \* window sizes N are 0 .. MaxWindow
MaxNeighbors == 2      \* longest neighbour list of getGeneNeighborhoods

-----------------------------------------------------------------------------
(* Generic helpers *)

Min(a, b) == IF a <= b THEN a ELSE b
Max(a, b) == IF a >= b THEN a ELSE b
Abs(a)    == IF a < 0 THEN -a ELSE a

SetMax(S) == CHOOSE x \in S : \A y \in S : y <= x
SetMin(S) == CHOOSE x \in S : \A y \in S : x <= y

Range(s) == {s[i] : i \in 1..Len(s)}

SeqsUpTo(S, n) == UNION {[1..k -> S] : k \in 0..n}

RECURSIVE Gcd(_, _)
Gcd(a, b) == IF b = 0 THEN a ELSE Gcd(b, a % b)

-----------------------------------------------------------------------------
(* colormap *)

\* numpy.unique: the distinct values, ascending
RECURSIVE SortAsc(_)
SortAsc(S) ==
    IF S = {} THEN <<>>
    ELSE LET m == SetMin(S) IN <<m>> \o SortAsc(S \ {m})

unique(list) == SortAsc(Range(list))

\* a plausible slip: floor instead of ceil
PermFloor(n) == SetMax({p \in 0..n : p * p <= n})

\* perm = int(math.ceil(math.sqrt(N)))
Perm(n) == SetMin({p \in 0..n : p * p >= n})

\* colorsys.hsv_to_rgb for h = hx/perm, s = (5*sy + perm)/(5*perm), v = 7/10.
\* The three channels are returned as integers in units of 1/(50*perm*perm).
hsv_to_rgb(hx, sy, perm) ==
    LET sN == 5 * sy + perm                  \* s = sN / (5*perm)
        i  == (6 * hx) \div perm             \* i = int(h*6.0)
        fN == (6 * hx) % perm                \* f = h*6.0 - i = fN / perm
        v  == 35 * perm * perm
        p  == 7 * (5 * perm - sN) * perm                 \* v*(1.0 - s)
        q  == 7 * (5 * perm * perm - sN * fN)            \* v*(1.0 - s*f)
        t  == 7 * (5 * perm * perm - sN * (perm - fN))   \* v*(1.0 - s*(1.0-f))
        k  == i % 6
    IN  IF sN = 0 THEN <<v, v, v>>
        ELSE CASE k = 0 -> <<v, t, p>>
               [] k = 1 -> <<q, v, p>>
               [] k = 2 -> <<p, v, t>>
               [] k = 3 -> <<p, q, v>>
               [] k = 4 -> <<t, p, v>>
               [] k = 5 -> <<v, p, q>>

\* itertools.product(H, S) with H = [x/perm], S = [x/perm + 0.2], x in range(perm):
\* the k-th pair (k from 1) is (H[(k-1) div perm], S[(k-1) mod perm])
HSgrid(perm) ==
    [k \in 1..(perm * perm) |-> <<(k - 1) \div perm, (k - 1) % perm>>]

\* the dict built by colormap for N >= 1 distinct values
colormap(list) ==
    LET values == unique(list)
        n      == Len(values)
        perm   == Perm(n)
        HS     == HSgrid(perm)
        \* zip(H, S, V) stops at the shorter of the grid and V = [0.7]*N
        m      == Min(Len(HS), n)
        RGB    == [k \in 1..m |-> hsv_to_rgb(HS[k][1], HS[k][2], perm)]
    IN  [id \in {values[k] : k \in 1..m} |->
            RGB[CHOOSE k \in 1..m : values[k] = id]]

ClusterIds == -1..MaxClusterId

EmptyDict == [x \in {} |-> 0]

-----------------------------------------------------------------------------
(* regionlength *)

Coords == {100, 500, 900}

\* a plausible slip: trusting start <= end in every feature
regionlengthOrdered(feats) ==
    <<SetMax({feats[i].end : i \in 1..Len(feats)}),
      SetMin({feats[i].start : i \in 1..Len(feats)})>>

\* lines 122-127, for a non-empty list
regionlength(feats) ==
    LET starts == {feats[i].start : i \in 1..Len(feats)}
        ends   == {feats[i].end : i \in 1..Len(feats)}
    IN  <<Max(SetMax(starts), SetMax(ends)), Min(SetMin(starts), SetMin(ends))>>


-----------------------------------------------------------------------------
(* Python numbers: the exact value n/d (d > 0, lowest terms) and whether the *)
(* object is a float.                                                        *)

Rat(n, d) ==
    LET g == Gcd(Abs(n), Abs(d))
        s == IF d < 0 THEN -1 ELSE 1
    IN  [n |-> (s * n) \div g, d |-> (s * d) \div g]

PyInt(k)   == [n |-> k, d |-> 1, fl |-> FALSE]
PyFloat(a) == [a EXCEPT !.fl = TRUE]
PyAbs(a)   == [a EXCEPT !.n = Abs(a.n)]

PyAdd(a, b) ==
    LET r == Rat(a.n * b.d + b.n * a.d, a.d * b.d)
    IN  [n |-> r.n, d |-> r.d, fl |-> a.fl \/ b.fl]

PySub(a, b) ==
    LET r == Rat(a.n * b.d - b.n * a.d, a.d * b.d)
    IN  [n |-> r.n, d |-> r.d, fl |-> a.fl \/ b.fl]

\* true division (b # 0)
TrueDiv(a, b) ==
    LET r == Rat(a.n * b.d, a.d * b.n)
    IN  [n |-> r.n, d |-> r.d, fl |-> TRUE]

\* the operator "/" (b # 0): between two ints Python 2 floors, Python 3 does not
PyDiv(a, b) ==
    IF pyver = 2 /\ ~a.fl /\ ~b.fl THEN PyInt(a.n \div b.n) ELSE TrueDiv(a, b)

SameValue(a, b) == a.n = b.n /\ a.d = b.d

-----------------------------------------------------------------------------
(* make_region_drawing *)

scale == 20

Unbound == [bound |-> FALSE, start |-> 0, end |-> 0, strand |-> 0]
NoRegion  == <<>>
NoOffsets == [set |-> FALSE]
NoDraw    == [called |-> FALSE]

\* imgfileloc = "/tmp/%s.png" % sanitizeString(centergenename, False)
imgfileloc == <<"/tmp", centergenename, "png">>

\* lines 157-170 from feature i on: the centre locals, the arrows added, and the
\* exception that stopped the loop
RECURSIVE ArrowLoop(_, _, _)
ArrowLoop(i, c, added) ==
    IF i > Len(seqfeatures)
    THEN [center |-> c, arrows |-> added, error |-> NoError]
    ELSE LET feature == seqfeatures[i]
             isC == feature.id = centergenename
             c2  == IF isC
                    THEN [bound |-> TRUE, start |-> feature.start,
                          end |-> feature.end, strand |-> feature.strand]
                    ELSE c
             bordercol == IF isC THEN "red" ELSE "white"
         IN  IF feature.cluster_id \notin DOMAIN getcolor
             THEN [center |-> c2, arrows |-> added, error |-> "KeyError"]
             ELSE ArrowLoop(i + 1, c2,
                     Append(added, [id |-> feature.id,
                                    color |-> getcolor[feature.cluster_id],
                                    border |-> bordercol]))

\* lines 157-170
BuildArrows ==
    /\ pc = "arrows"
    /\ LET r == ArrowLoop(1, Unbound, <<>>)
       IN  /\ center' = r.center
           /\ arrows' = r.arrows
           /\ error' = r.error
           /\ pc' = IF r.error = NoError THEN "layout" ELSE "raised"
    /\ UNCHANGED <<pyver, region, offsets, drawcall, image, convert, returned>>
    /\ UNCHANGED <<colorVars, drawArgs, asmArgs, asmVars>>

\* lines 173-179, with the centre locals bound
LayoutOffsets(start, end) ==
    LET pagew_px == PyDiv(PyInt(maxwidth), PyInt(scale))
        midcentergene ==
            PyAdd(PyDiv(PyInt(Abs(center.end - center.start)), PyInt(2)),
                  PyInt(Min(center.start, center.end)))
        l2mid == PyAbs(PySub(midcentergene, PyInt(start)))
        r2mid == PyAbs(PySub(midcentergene, PyInt(end)))
        roffset == PyFloat(PySub(PyDiv(pagew_px, PyInt(2)), PyDiv(l2mid, PyInt(scale))))
        loffset == PyFloat(PySub(PyDiv(pagew_px, PyInt(2)), PyDiv(r2mid, PyInt(scale))))
    IN  [set |-> TRUE, pagew_px |-> pagew_px, loffset |-> loffset, roffset |-> roffset]

\* lines 172-179
Layout ==
    /\ pc = "layout"
    /\ IF Len(seqfeatures) = 0
       THEN \* starts, ends = zip(*location) has nothing to unpack
            /\ error' = "ValueError"
            /\ pc' = "raised"
            /\ UNCHANGED <<region, offsets>>
       ELSE LET se == regionlength(seqfeatures)
            IN  /\ region' = se
                /\ IF ~center.bound
                   THEN \* centerend, centerdstart were never assigned
                        /\ error' = "UnboundLocalError"
                        /\ pc' = "raised"
                        /\ UNCHANGED offsets
                   ELSE /\ offsets' = LayoutOffsets(se[1], se[2])
                        /\ pc' = "draw"
                        /\ UNCHANGED error
    /\ UNCHANGED <<pyver, center, arrows, drawcall, image, convert, returned>>
    /\ UNCHANGED <<colorVars, drawArgs, asmArgs, asmVars>>

\* line 181: the arguments are evaluated, then the backend draws (and may fail)
Draw ==
    /\ pc = "draw"
    /\ IF offsets.pagew_px.n = 0
       THEN /\ error' = "ZeroDivisionError"
            /\ pc' = "raised"
            /\ UNCHANGED drawcall
       ELSE /\ drawcall' = [called |-> TRUE, start |-> region[1], end |-> region[2],
                            pagesize |-> <<225, offsets.pagew_px>>,
                            xl |-> PyDiv(offsets.loffset, offsets.pagew_px),
                            xr |-> PyDiv(offsets.roffset, offsets.pagew_px)]
            /\ \E ok \in BOOLEAN :
                 /\ error' = IF ok THEN NoError ELSE "DrawError"
                 /\ pc' = IF ok THEN "write" ELSE "raised"
    /\ UNCHANGED <<pyver, center, arrows, region, offsets, image, convert, returned>>
    /\ UNCHANGED <<colorVars, drawArgs, asmArgs, asmVars>>

\* line 183: the backend writes the PNG (and may fail)
Write ==
    /\ pc = "write"
    /\ \E ok \in BOOLEAN :
         /\ image' = IF ok THEN "written" ELSE image
         /\ error' = IF ok THEN NoError ELSE "IOError"
         /\ pc' = IF ok THEN "flip" ELSE "raised"
    /\ UNCHANGED <<pyver, center, arrows, region, offsets, drawcall, convert, returned>>
    /\ UNCHANGED <<colorVars, drawArgs, asmArgs, asmVars>>

\* lines 186-187: os.system runs the external convert; its exit status is dropped
Flip ==
    /\ pc = "flip"
    /\ IF center.strand = -1
       THEN \E ok \in BOOLEAN :
              /\ convert' = IF ok THEN "ok" ELSE "failed"
              /\ image' = IF ok THEN "rotated" ELSE image
       ELSE UNCHANGED <<convert, image>>
    /\ pc' = "return"
    /\ UNCHANGED <<pyver, error, center, arrows, region, offsets, drawcall, returned>>
    /\ UNCHANGED <<colorVars, drawArgs, asmArgs, asmVars>>

\* line 188
Return ==
    /\ pc = "return"
    /\ returned' = imgfileloc
    /\ pc' = "done"
    /\ UNCHANGED <<pyver, error, center, arrows, region, offsets, drawcall, image, convert>>
    /\ UNCHANGED <<colorVars, drawArgs, asmArgs, asmVars>>

-----------------------------------------------------------------------------
(* Collaborators of the feature assemblers (ClusterFuncs, TreeFuncs) *)

GeneOrder == <<"g1", "g2">>
Genes     == Range(GeneOrder)
RunClusters == {0, 1}

\* getSanitizedContigList(cur): sanitized contig name -> name in the database
getSanitizedContigList == [c \in {"c_1"} |-> "c.1"]

\* splitTblastn(tblastn_id): the contig and the two coordinates the id encodes
splitTblastn(id) == <<id.contig, id.start, id.stop>>

\* getGeneInfo(ids, cur): one row per known gene, in the order asked
getGeneInfo(ids) ==
    LET known == SelectSeq(ids, LAMBDA g : g \in Genes)
    IN  [i \in 1..Len(known) |->
            [geneid |-> known[i], genestart |-> geneinfo[known[i]].genestart,
             geneend |-> geneinfo[known[i]].geneend,
             strand |-> geneinfo[known[i]].strand]]

\* getGeneNeighborhoods(geneid, clusterrunid, cur): no record for an unknown gene
getGeneNeighborhoods(geneid) ==
    IF geneid \in Genes THEN neighborhood[geneid] ELSE <<>>

\* getGenesInRegion(contig, low, high, cur): the genes of the contig that overlap
\* the window low..high
getGenesInRegion(contig, low, high) ==
    SelectSeq(GeneOrder,
              LAMBDA g : /\ geneinfo[g].contig = contig
                         /\ Min(geneinfo[g].genestart, geneinfo[g].geneend) <= high
                         /\ Max(geneinfo[g].genestart, geneinfo[g].geneend) >= low)

-----------------------------------------------------------------------------
(* makeSeqFeature, makeSeqFeaturesForGeneNeighbors *)

\* lines 30-38, for a gene the database knows
makeSeqFeature(geneid) ==
    LET info == getGeneInfo(<<geneid>>)[1]
    IN  [id |-> geneid, start |-> info.genestart, end |-> info.geneend,
         strand |-> info.strand, cluster_id |-> -1]

\* a plausible slip: the cluster id of the record is not written to the feature
makeSeqFeaturesUntagged(name) ==
    LET outdata == getGeneNeighborhoods(name)
    IN  [i \in 1..Len(outdata) |-> makeSeqFeature(outdata[i].gene)]

\* lines 52-58
makeSeqFeaturesForGeneNeighbors(name) ==
    LET outdata == getGeneNeighborhoods(name)
    IN  [i \in 1..Len(outdata) |->
            [makeSeqFeature(outdata[i].gene) EXCEPT !.cluster_id = outdata[i].cluster]]

\* the collaborator calls of lines 52-58
NeighborCalls(name) ==
    LET outdata == getGeneNeighborhoods(name)
    IN  <<[fn |-> "getGeneNeighborhoods", args |-> <<name>>]>>
        \o [i \in 1..Len(outdata) |->
               [fn |-> "getGeneInfo", args |-> <<outdata[i].gene>>]]

\* a call of makeSeqFeaturesForGeneNeighbors(genename, clusterrunid, cur)
GeneNeighbors ==
    /\ pc = "neighbors"
    /\ features' = makeSeqFeaturesForGeneNeighbors(genename)
    /\ calls' = calls \o NeighborCalls(genename)
    /\ pc' = "done"
    /\ UNCHANGED <<error, pyver, warnings>>
    /\ UNCHANGED <<colorVars, drawArgs, drawVars, asmArgs>>

-----------------------------------------------------------------------------
(* makeSeqObjectsForTblastnNeighbors *)

\* a plausible slip: <= for <
TblastnStrandLe(start, stop) == IF start <= stop THEN 1 ELSE -1

\* lines 83-86
TblastnStrand(start, stop) == IF start < stop THEN 1 ELSE -1

\* lines 99-108 from row i on: the gene picked so far and its distance
RECURSIVE ClosestLoop(_, _, _, _, _, _)
ClosestLoop(infos, i, minlen, mingene, start, stop) ==
    IF i > Len(infos) THEN mingene
    ELSE LET genestart == infos[i].genestart
             geneend   == infos[i].geneend
             distance  == Min(Min(Abs(genestart - start), Abs(geneend - start)),
                              Min(Abs(genestart - stop), Abs(geneend - stop)))
         IN  IF distance < minlen
             THEN ClosestLoop(infos, i + 1, distance, infos[i].geneid, start, stop)
             ELSE ClosestLoop(infos, i + 1, minlen, mingene, start, stop)

\* a call of makeSeqObjectsForTblastnNeighbors(tblastn_id, clusterrunid, cur, N)
Tblastn ==
    /\ pc = "tblastn"
    /\ LET sanitizedToNot == getSanitizedContigList
           split  == splitTblastn(tblastn_id)
           contig == IF split[1] \in DOMAIN sanitizedToNot
                     THEN sanitizedToNot[split[1]] ELSE split[1]
           start  == split[2]
           stop   == split[3]
           tblastn_feature ==
               [id |-> tblastn_id, start |-> start, end |-> stop,
                strand |-> TblastnStrand(start, stop), cluster_id |-> -1]
           neighboring_genes == getGenesInRegion(contig, start - N, stop + N)
           head == <<[fn |-> "getSanitizedContigList", args |-> <<>>],
                     [fn |-> "getGenesInRegion",
                      args |-> <<contig, start - N, stop + N>>]>>
       IN  IF Len(neighboring_genes) = 0
           THEN /\ warnings' = warnings + 1
                /\ features' = <<tblastn_feature>>
                /\ calls' = calls \o head
           ELSE LET neighboring_geneinfo == getGeneInfo(neighboring_genes)
                    mingene == ClosestLoop(neighboring_geneinfo, 1, N, None, start, stop)
                IN  /\ features' = Append(makeSeqFeaturesForGeneNeighbors(mingene),
                                          tblastn_feature)
                    /\ calls' = calls \o head
                          \o <<[fn |-> "getGeneInfo", args |-> neighboring_genes]>>
                          \o NeighborCalls(mingene)
                    /\ UNCHANGED warnings
    /\ pc' = "done"
    /\ UNCHANGED <<error, pyver>>
    /\ UNCHANGED <<colorVars, drawArgs, drawVars, asmArgs>>

-----------------------------------------------------------------------------
(* Calls of colormap and of regionlength *)

\* a call of colormap(valuelist)
Colormap ==
    /\ pc = "colormap"
    /\ IF Len(unique(valuelist)) = 0
       THEN \* H, S = zip(*HS) has nothing to unpack
            /\ error' = "ValueError"
            /\ pc' = "raised"
            /\ UNCHANGED colorlookup
       ELSE /\ colorlookup' = colormap(valuelist)
            /\ pc' = "done"
            /\ UNCHANGED error
    /\ UNCHANGED <<pyver, valuelist>>
    /\ UNCHANGED <<drawArgs, drawVars, asmArgs, asmVars>>

\* a call of regionlength(seqfeatures)
Regionlength ==
    /\ pc = "regionlength"
    /\ IF Len(seqfeatures) = 0
       THEN \* starts, ends = zip(*location) has nothing to unpack
            /\ error' = "ValueError"
            /\ pc' = "raised"
            /\ UNCHANGED region
       ELSE /\ region' = regionlength(seqfeatures)
            /\ pc' = "done"
            /\ UNCHANGED error
    /\ UNCHANGED <<pyver, center, arrows, offsets, drawcall, image, convert, returned>>
    /\ UNCHANGED <<colorVars, drawArgs, asmArgs, asmVars>>

-----------------------------------------------------------------------------
(* Initial states: the arguments of one call, the rest idle *)

PyVersions == {2, 3}

IdleColor == valuelist = <<>> /\ colorlookup = EmptyDict

FreshDraw ==
    /\ center = Unbound /\ arrows = <<>> /\ region = NoRegion /\ offsets = NoOffsets
    /\ drawcall = NoDraw /\ image = "absent" /\ convert = "notrun" /\ returned = None

IdleDraw ==
    /\ seqfeatures = <<>> /\ getcolor = EmptyDict /\ centergenename = None
    /\ maxwidth = 0 /\ FreshDraw

\* a gene of length 1 at pos, stored (start, end) in the order of its strand
GeneAt(pos, strand) ==
    [contig |-> "c.1", strand |-> strand,
     genestart |-> IF strand = 1 THEN pos ELSE pos + 1,
     geneend   |-> IF strand = 1 THEN pos + 1 ELSE pos]

GeneRows == {GeneAt(pos, strand) : pos \in 0..(MaxCoord - 1), strand \in {1, -1}}

NeighborRecords == [gene : Genes, cluster : RunClusters]

NoNeighborhood == [g \in Genes |-> <<>>]

FreshAsm == calls = <<>> /\ warnings = 0 /\ features = <<>>

IdleAsm ==
    /\ geneinfo = [g \in Genes |-> GeneAt(0, 1)] /\ neighborhood = NoNeighborhood
    /\ genename = None /\ tblastn_id = None /\ N = 0 /\ FreshAsm

\* the k distinct ids -1 .. k-2, largest first
DescendingLists == {[i \in 1..k |-> k - 1 - i] : k \in 1..MaxDistinct}

InitColor ==
    /\ pc = "colormap" /\ error = NoError /\ pyver \in PyVersions
    /\ valuelist \in SeqsUpTo(ClusterIds, MaxValues) \cup DescendingLists
    /\ colorlookup = EmptyDict
    /\ IdleDraw /\ IdleAsm

ExtentFeatures ==
    [id : {"g1"}, start : Coords, end : Coords, strand : {1}, cluster_id : {-1}]

InitExtent ==
    /\ pc = "regionlength" /\ error = NoError /\ pyver \in PyVersions
    /\ seqfeatures \in SeqsUpTo(ExtentFeatures, MaxFeatures)
    /\ getcolor = EmptyDict /\ centergenename = None /\ maxwidth = 0
    /\ FreshDraw /\ IdleColor /\ IdleAsm

DrawClusters == {-1, 0}
DrawFeatures ==
    [id : {"g1", "g2"}, start : Coords, end : Coords, strand : {1, -1},
     cluster_id : DrawClusters]
Widths == {10, 400, 410}

InitDraw ==
    /\ pc = "arrows" /\ error = NoError /\ pyver \in PyVersions
    /\ seqfeatures \in SeqsUpTo(DrawFeatures, MaxDrawn)
    /\ getcolor \in {colormap(SortAsc(S)) : S \in (SUBSET DrawClusters) \ {{}}}
    /\ centergenename \in {"g1", "g3"}
    /\ maxwidth \in Widths
    /\ FreshDraw /\ IdleColor /\ IdleAsm

InitNeighbors ==
    /\ pc = "neighbors" /\ error = NoError /\ pyver \in PyVersions
    /\ geneinfo \in [Genes -> GeneRows]
    /\ genename \in Genes
    /\ \E list \in SeqsUpTo(NeighborRecords, MaxNeighbors) :
          neighborhood = [g \in Genes |-> IF g = genename THEN list ELSE <<>>]
    /\ tblastn_id = None /\ N = 0
    /\ FreshAsm /\ IdleColor /\ IdleDraw

TblastnIds == [contig : {"c_1"}, start : 0..MaxCoord, stop : 0..MaxCoord]

InitTblastn ==
    /\ pc = "tblastn" /\ error = NoError /\ pyver \in PyVersions
    /\ geneinfo \in [Genes -> GeneRows]
    /\ neighborhood \in
          [Genes -> {<<>>, <<[gene |-> "g1", cluster |-> 0],
                             [gene |-> "g2", cluster |-> 1]>>}]
    /\ genename = None
    /\ tblastn_id \in TblastnIds
    /\ N \in 0..MaxWindow
    /\ FreshAsm /\ IdleColor /\ IdleDraw

NextColor     == Colormap
NextExtent    == Regionlength
NextDraw      == BuildArrows \/ Layout \/ Draw \/ Write \/ Flip \/ Return
NextNeighbors == GeneNeighbors
NextTblastn   == Tblastn

SpecColor     == InitColor /\ [][NextColor]_vars
SpecExtent    == InitExtent /\ [][NextExtent]_vars
SpecDraw      == InitDraw /\ [][NextDraw]_vars
SpecNeighbors == InitNeighbors /\ [][NextNeighbors]_vars
SpecTblastn   == InitTblastn /\ [][NextTblastn]_vars

-----------------------------------------------------------------------------
(* Properties *)

AllCoords == UNION {{seqfeatures[i].start, seqfeatures[i].end} : i \in 1..Len(seqfeatures)}

\* the fractions of the layout algorithm, every division exact
ExactFractions(regionStart, regionEnd, centerStart, centerEnd, pageWidthPx) ==
    LET pageWidthUnits == TrueDiv(PyInt(pageWidthPx), PyInt(scale))
        centerMid == PyAdd(TrueDiv(PyInt(Abs(centerEnd - centerStart)), PyInt(2)),
                           PyInt(Min(centerStart, centerEnd)))
        leftSpan  == PyAbs(PySub(centerMid, PyInt(regionStart)))
        rightSpan == PyAbs(PySub(centerMid, PyInt(regionEnd)))
        half      == TrueDiv(pageWidthUnits, PyInt(2))
    IN  [left  |-> TrueDiv(PySub(half, TrueDiv(rightSpan, PyInt(scale))), pageWidthUnits),
         right |-> TrueDiv(PySub(half, TrueDiv(leftSpan, PyInt(scale))), pageWidthUnits)]

\* C1: whenever make_region_drawing calls the drawing backend, the xl and xr it
\* passes are the exact fractions of the layout algorithm for the region extent,
\* the centre feature and the page width of the call.
C1_ExactFractions ==
    drawcall.called =>
        LET f == ExactFractions(region[1], region[2], center.start, center.end, maxwidth)
        IN  SameValue(drawcall.xl, f.left) /\ SameValue(drawcall.xr, f.right)

\* C2: regionlength of a non-empty list returns (max, min) over all start and end
\* coordinates: both are coordinates of some feature and bound all the others.
C2_RegionExtent ==
    (pc = "done" /\ Len(seqfeatures) > 0) =>
        /\ region[1] \in AllCoords /\ \A c \in AllCoords : c <= region[1]
        /\ region[2] \in AllCoords /\ \A c \in AllCoords : region[2] <= c
        /\ region[1] >= region[2]

\* C2 witness: the maximum is the start of a feature stored in reverse order
C2_Witness ==
    /\ pc = "done" /\ Len(seqfeatures) >= 2
    /\ region[1] > region[2]
    /\ \E i \in 1..Len(seqfeatures) :
          /\ seqfeatures[i].start > seqfeatures[i].end
          /\ seqfeatures[i].start = region[1]
          /\ \A j \in 1..Len(seqfeatures) : seqfeatures[j].end < region[1]

\* number of distinct ids below id: the position of id in ascending order
Rank(ids, id) == Cardinality({x \in ids : x < id})

\* C3: colormap returns one entry per distinct id; the id of rank r (ascending,
\* from 0) has the colour of the grid pair (r div perm, r mod perm) with
\* perm = ceil(sqrt(N)); perm*perm >= N, the pairs and the colours are pairwise
\* distinct.
C3_DistinctColors ==
    pc = "done" =>
        LET ids  == Range(valuelist)
            n    == Cardinality(ids)
            perm == CHOOSE p \in 1..n : p * p >= n /\ (p - 1) * (p - 1) < n
            pair(id) == <<Rank(ids, id) \div perm, Rank(ids, id) % perm>>
        IN  /\ n >= 1
            /\ DOMAIN colorlookup = ids
            /\ perm * perm >= n
            /\ \A id \in ids :
                  /\ pair(id)[1] \in 0..(perm - 1)
                  /\ colorlookup[id] = hsv_to_rgb(pair(id)[1], pair(id)[2], perm)
            /\ \A a, b \in ids :
                  a # b => pair(a) # pair(b) /\ colorlookup[a] # colorlookup[b]

\* C3 witness: three distinct ids, the sentinel among them, some id repeated: N is
\* no square and the grid has more pairs than ids
C3_Witness ==
    /\ pc = "done"
    /\ -1 \in Range(valuelist)
    /\ Cardinality(Range(valuelist)) = 3
    /\ Len(valuelist) > 3
    /\ Cardinality(DOMAIN colorlookup) = 3

UniqueIds ==
    \A i, j \in 1..Len(seqfeatures) : seqfeatures[i].id = seqfeatures[j].id => i = j

CenterAbsent == \A i \in 1..Len(seqfeatures) : seqfeatures[i].id # centergenename

AllMapped ==
    \A i \in 1..Len(seqfeatures) : seqfeatures[i].cluster_id \in DOMAIN getcolor

Ended == pc \in {"done", "raised"}

\* C4: a call whose centre id is the id of no feature (the list non-empty, every
\* cluster id mapped) ends with the dedicated CenterFeatureNotFoundError, with no
\* image written and no path returned.
C4_CenterNotFoundError ==
    (Ended /\ CenterAbsent /\ Len(seqfeatures) > 0 /\ AllMapped) =>
        /\ error = "CenterFeatureNotFoundError"
        /\ image = "absent"
        /\ returned = None

\* the strands of the features whose id is the centre id
CenterStrands ==
    {seqfeatures[i].strand : i \in {j \in 1..Len(seqfeatures) :
                                        seqfeatures[j].id = centergenename}}

\* C5: in a call that returns a path (feature ids unique) the image is rotated
\* exactly when the centre feature's strand is -1; the rotation comes after the
\* write and before the return; with strand +1 no rotation step occurs.
C5_RotatedIffReverse ==
    UniqueIds =>
        /\ returned # None => (image = "rotated" <=> CenterStrands = {-1})
        /\ convert # "notrun" =>
              pc \in {"return", "done"} /\ image \in {"written", "rotated"}
        /\ CenterStrands = {1} => convert = "notrun"

\* C6: a call in which the colour lookup, the drawing, the writing or the rotation
\* failed returns no path.
C6_FailureAborts ==
    (error # NoError \/ convert = "failed") => returned = None

\* the hit of the call and the window that was passed to getGenesInRegion
HitStart == splitTblastn(tblastn_id)[2]
HitStop  == splitTblastn(tblastn_id)[3]
RegionCall == calls[2]
GenesReturned ==
    getGenesInRegion(RegionCall.args[1], RegionCall.args[2], RegionCall.args[3])

HitFeature ==
    [id |-> tblastn_id, start |-> HitStart, end |-> HitStop,
     strand |-> IF HitStart < HitStop THEN 1 ELSE -1, cluster_id |-> -1]

\* endpoint distance of gene g to the hit
EndpointDistance(g) ==
    SetMin({Abs(geneinfo[g].genestart - HitStart), Abs(geneinfo[g].geneend - HitStart),
            Abs(geneinfo[g].genestart - HitStop), Abs(geneinfo[g].geneend - HitStop)})

CallsTo(fn) == {i \in 1..Len(calls) : calls[i].fn = fn}

\* C7: when getGenesInRegion returned at least one gene, the neighbours of a
\* returned gene of minimal endpoint distance were fetched and that list, with
\* the hit feature appended, is what the call returns.  Stated for the calls
\* with a window N >= 1 in which every returned gene has neighbour records.
C7_NearestGeneNeighbors ==
    (/\ pc = "done" /\ Len(GenesReturned) > 0 /\ N >= 1
     /\ \A h \in Range(GenesReturned) : Len(getGeneNeighborhoods(h)) > 0) =>
        \E g \in Range(GenesReturned) :
            /\ \A h \in Range(GenesReturned) : EndpointDistance(g) <= EndpointDistance(h)
            /\ \E i \in CallsTo("getGeneNeighborhoods") : calls[i].args = <<g>>
            /\ features = Append(makeSeqFeaturesForGeneNeighbors(g), HitFeature)

\* C8: when getGenesInRegion returned no gene, the call wrote one warning, raised
\* nothing, made no gene-info or neighbourhood lookup and returns exactly the hit
\* feature: id the hit id, cluster id -1, strand +1 if start < stop and -1 if not.
C8_NoGenesOnlyHit ==
    (pc = "done" /\ Len(GenesReturned) = 0) =>
        /\ warnings = 1
        /\ error = NoError
        /\ CallsTo("getGeneInfo") = {}
        /\ CallsTo("getGeneNeighborhoods") = {}
        /\ Len(features) = 1
        /\ features[1].id = tblastn_id
        /\ features[1].cluster_id = -1
        /\ features[1].strand = (IF HitStart < HitStop THEN 1 ELSE -1)
        /\ features[1].start = HitStart /\ features[1].end = HitStop

\* C8 witness: no gene in the window of a hit with start = stop
C8_Witness ==
    /\ pc = "done" /\ Len(GenesReturned) = 0
    /\ HitStart = HitStop /\ N > 0
    /\ warnings = 1 /\ Len(features) = 1 /\ features[1].strand = -1

\* C9 as stated: with no neighbour record the call returns the one feature of
\* the requested gene.
C9_EmptyGivesGene ==
    (pc = "done" /\ Len(getGeneNeighborhoods(genename)) = 0) =>
        Len(features) = 1 /\ features[1].id = genename

\* C9 amended: the call returns one feature per neighbour record, in record
\* order, each with the record's gene (id, location, strand) and cluster id;
\* with no record it returns the empty list.
C9_OneFeaturePerRecord ==
    pc = "done" =>
        LET outdata == getGeneNeighborhoods(genename)
        IN  /\ Len(features) = Len(outdata)
            /\ Len(outdata) = 0 => features = <<>>
            /\ \A i \in 1..Len(outdata) :
                  /\ features[i].id = outdata[i].gene
                  /\ features[i].cluster_id = outdata[i].cluster
                  /\ features[i].start = geneinfo[outdata[i].gene].genestart
                  /\ features[i].end = geneinfo[outdata[i].gene].geneend
                  /\ features[i].strand = geneinfo[outdata[i].gene].strand

\* C9 witness: the call has returned for a gene without neighbour records
C9_Witness ==
    /\ pc = "done"
    /\ genename \in Genes
    /\ Len(getGeneNeighborhoods(genename)) = 0
    /\ features = <<>>
    /\ Len(calls) = 1 /\ calls[1].fn = "getGeneNeighborhoods"

\* C10: the window passed to getGenesInRegion reaches at least N beyond both
\* ends of the hit span, whatever the order of start and stop.
C10_WindowCoversHit ==
    pc = "done" =>
        /\ RegionCall.fn = "getGenesInRegion"
        /\ RegionCall.args[2] <= Min(HitStart, HitStop) - N
        /\ RegionCall.args[3] >= Max(HitStart, HitStop) + N

=============================================================================
